---------------------------- MODULE Spec2Model ----------------------------
(***************************************************************************)
(* Verification model of openlr-dereferencer-python: route value types     *)
(* (decoding/routes.py), offset trimming (decoding/path_math.py) and the   *)
(* polyline utilities of the WGS84 geo tool (maps/wgs84.py).               *)
(*                                                                         *)
(* Metre quantities and relative offsets are Python floats in the source;  *)
(* here they are exact rationals <<numerator, denominator>>, so a division *)
(* followed by a multiplication is computed, never assumed to cancel.      *)
(* Coordinates are points <<x, y>> of an integer grid and polylines are    *)
(* axis-parallel, so that distance, bearing and extrapolate are exact.     *)
(***************************************************************************)
EXTENDS Integers, Sequences, FiniteSets, TLC

\* ------------------------------------------------------------------ bounds
NumLines == 3
MaxLineLength == 3
MaxInbetween == 1
MaxOffset == 3
MaxVertices == 3
MaxSegment == 2
MaxJoin == 3
OffsetDenominator == 4
MaxBearDist == 2
NumLrps == 2
MaxLrps == 3
NumCandidates == 2
NumGeoTools == 3
NumThreads == 2
MaxReads == 2
NumNodes == 3

VARIABLES
    pc,             \* which operation has been applied to the inputs
    path,           \* Route handed to Route.lines / remove_offsets
    p_off,          \* positive offset in metres
    n_off,          \* negative offset in metres
    route_lines,    \* value returned by Route.lines
    result,         \* Route returned, or error raised, by remove_offsets
    line,           \* polyline handed to split_line / interpolate
    meters_into,    \* metric offset handed to split_line / interpolate
    azi_coincident, \* azimuth the geodesic solver reports for coincident points
    parts,          \* pair returned by split_line
    joined,         \* value returned, or error raised, by join_lines
    point,          \* value returned by interpolate
    linestrings,    \* sequence of polylines handed to join_lines
    path_after,     \* the input Route as its caller sees it after remove_offsets
    pol_line,       \* Line handed to PointOnLine.from_abs_offset
    abs_offset,     \* meters_into handed to PointOnLine.from_abs_offset
    pol,            \* PointOnLine returned by from_abs_offset
    candidate,      \* PointOnLine handed to compute_bearing
    is_last_lrp,    \* whether the candidate belongs to the last LRP
    bear_dist,      \* bearing distance in metres
    measured,       \* the pair of points geo_tool.bearing was invoked with, if it was
    bear,           \* value returned by compute_bearing
    reference,      \* the LRPs of the line location reference being decoded
    first_candidates, \* list made of nominate_candidates for the first LRP
    invoked,        \* calls made to match_tail and build_line_location, in order
    decoded,        \* value returned, or error raised, by dereference_path / decode_line
    module_geo_tool, \* the module global __geo_tool__
    invocation,     \* per thread: state of its decode invocation and the tools geotool() gave it
    cache,          \* entries of the lru_cache of heuristic, least recently used first
    h_args,         \* arguments of the latest heuristic call
    h_ret,          \* value the latest heuristic call returned
    h_hit           \* whether the latest heuristic call was answered from the cache

vars == <<pc, path, p_off, n_off, route_lines, result, line, meters_into,
          azi_coincident, parts, joined, point, linestrings, path_after,
          pol_line, abs_offset, pol, candidate, is_last_lrp, bear_dist,
          measured, bear, reference, first_candidates, invoked, decoded,
          module_geo_tool, invocation, cache, h_args, h_ret, h_hit>>

routeVars == <<path, p_off, n_off, route_lines, result, path_after>>
geoVars == <<line, meters_into, azi_coincident, parts, joined, point, linestrings>>
pointVars == <<pol_line, abs_offset, pol>>
bearVars == <<candidate, is_last_lrp, bear_dist, measured, bear>>
decodeVars == <<reference, first_candidates, invoked, decoded>>
toolVars == <<module_geo_tool, invocation>>
cacheVars == <<cache, h_args, h_ret, h_hit>>

\* ------------------------------------------------------- float arithmetic
Abs(i) == IF i < 0 THEN -i ELSE i

RECURSIVE GCD(_, _)
GCD(a, b) == IF b = 0 THEN a ELSE GCD(b, a % b)

\* a float value n/d in lowest terms, d > 0
Float(n, d) ==
    LET g == GCD(Abs(n), d) IN <<n \div g, d \div g>>

FromInt(i) == <<i, 1>>
FAdd(a, b) == Float(a[1] * b[2] + b[1] * a[2], a[2] * b[2])
FSub(a, b) == Float(a[1] * b[2] - b[1] * a[2], a[2] * b[2])
FMul(a, b) == Float(a[1] * b[1], a[2] * b[2])
\* division by a positive value (line lengths are positive)
FDiv(a, b) == Float(a[1] * b[2], a[2] * b[1])
FLt(a, b) == a[1] * b[2] < b[1] * a[2]
FGeq(a, b) == a[1] * b[2] >= b[1] * a[2]
FLeq(a, b) == a[1] * b[2] =< b[1] * a[2]
FGt(a, b) == a[1] * b[2] > b[1] * a[2]

\* --------------------------------------------------------------- map lines
\* Line.length of the line with the given id: every length 1..MaxLineLength occurs
LengthOf(id) == ((id - 1) % MaxLineLength) + 1

Line(id) == [line_id |-> id, length |-> LengthOf(id)]

Lines == {Line(id) : id \in 1..NumLines}

\* path_length(lines): sum of the line lengths
RECURSIVE path_length(_)
path_length(ls) ==
    IF ls = <<>> THEN 0 ELSE Head(ls).length + path_length(Tail(ls))

\* --------------------------------------------------------------- routes.py
PointOnLine(l, relative_offset) == [line |-> l, relative_offset |-> relative_offset]

distance_from_start(p) == FMul(p.relative_offset, FromInt(p.line.length))

distance_to_end(p) == FMul(FSub(FromInt(1), p.relative_offset), FromInt(p.line.length))

\* variant: the absolute offset is stored as if it were the relative one
from_abs_offset_nodiv(l, meters_into_line) ==
    IF FGeq(meters_into_line, FromInt(0))
    THEN PointOnLine(l, meters_into_line)
    ELSE PointOnLine(l, FAdd(FromInt(l.length), meters_into_line))

\* variant: a negative offset is measured from the start of the line
from_abs_offset_abs(l, meters_into_line) ==
    IF FGeq(meters_into_line, FromInt(0))
    THEN PointOnLine(l, FDiv(meters_into_line, FromInt(l.length)))
    ELSE LET negative_meters_into == FSub(FromInt(0), meters_into_line)
         IN  PointOnLine(l, FDiv(negative_meters_into, FromInt(l.length)))

from_abs_offset(l, meters_into_line) ==
    IF FGeq(meters_into_line, FromInt(0))
    THEN PointOnLine(l, FDiv(meters_into_line, FromInt(l.length)))
    ELSE LET negative_meters_into == FAdd(FromInt(l.length), meters_into_line)
         IN  PointOnLine(l, FDiv(negative_meters_into, FromInt(l.length)))

Route(start, path_inbetween, end) ==
    [start |-> start, path_inbetween |-> path_inbetween, end |-> end]

\* the loop of Route.lines over path_inbetween
RECURSIVE AppendInbetween(_, _)
AppendInbetween(res, rest) ==
    IF rest = <<>> THEN res
    ELSE IF Head(rest).line_id # res[Len(res)].line_id
         THEN AppendInbetween(Append(res, Head(rest)), Tail(rest))
         ELSE AppendInbetween(res, Tail(rest))

\* variant: the end line is appended without looking at the last entry
lines_nopop(route) ==
    Append(AppendInbetween(<<route.start.line>>, route.path_inbetween), route.end.line)

lines(route) ==
    LET res == AppendInbetween(<<route.start.line>>, route.path_inbetween)
        popped == IF route.end.line.line_id = res[Len(res)].line_id
                  THEN SubSeq(res, 1, Len(res) - 1)
                  ELSE res
    IN  Append(popped, route.end.line)

absolute_start_offset(route) == distance_from_start(route.start)

absolute_end_offset(route) == distance_to_end(route.end)

length(route) ==
    LET total == FromInt(path_length(lines(route)))
        afterStart == IF FGt(route.start.relative_offset, FromInt(0))
                      THEN FSub(total, distance_from_start(route.start))
                      ELSE total
    IN  IF FLt(route.end.relative_offset, FromInt(1))
        THEN FSub(afterStart, distance_to_end(route.end))
        ELSE afterStart

\* ------------------------------------------------------------ path_math.py
LRDecodeError == [error |-> "Offset is bigger than line location path"]

\* variant: the head loop compares with > instead of >=
RECURSIVE RemovePositiveOffset_gt(_, _)
RemovePositiveOffset_gt(ls, remaining_poff) ==
    IF FGt(remaining_poff, FromInt(ls[1].length))
    THEN IF Tail(ls) = <<>>
         THEN [lines |-> <<>>, remaining |-> FSub(remaining_poff, FromInt(ls[1].length))]
         ELSE RemovePositiveOffset_gt(Tail(ls), FSub(remaining_poff, FromInt(ls[1].length)))
    ELSE [lines |-> ls, remaining |-> remaining_poff]

\* variant: the length of a popped line is not subtracted from the offset
RECURSIVE RemovePositiveOffset_nosub(_, _)
RemovePositiveOffset_nosub(ls, remaining_poff) ==
    IF FGeq(remaining_poff, FromInt(ls[1].length))
    THEN IF Tail(ls) = <<>>
         THEN [lines |-> <<>>, remaining |-> remaining_poff]
         ELSE RemovePositiveOffset_nosub(Tail(ls), remaining_poff)
    ELSE [lines |-> ls, remaining |-> remaining_poff]

\* while remaining_poff >= lines[0].length: remaining_poff -= lines.pop(0).length
\* an empty list in the value returned stands for the raise inside the loop
RECURSIVE RemovePositiveOffset(_, _)
RemovePositiveOffset(ls, remaining_poff) ==
    IF FGeq(remaining_poff, FromInt(ls[1].length))
    THEN IF Tail(ls) = <<>>
         THEN [lines |-> <<>>, remaining |-> FSub(remaining_poff, FromInt(ls[1].length))]
         ELSE RemovePositiveOffset(Tail(ls), FSub(remaining_poff, FromInt(ls[1].length)))
    ELSE [lines |-> ls, remaining |-> remaining_poff]

\* variant: the tail loop pops the first line instead of the last
RECURSIVE RemoveNegativeOffset_front(_, _)
RemoveNegativeOffset_front(ls, remaining_noff) ==
    IF FGeq(remaining_noff, FromInt(ls[Len(ls)].length))
    THEN IF Len(ls) = 1
         THEN [lines |-> <<>>, remaining |-> FSub(remaining_noff, FromInt(ls[1].length))]
         ELSE RemoveNegativeOffset_front(Tail(ls),
                                         FSub(remaining_noff, FromInt(ls[1].length)))
    ELSE [lines |-> ls, remaining |-> remaining_noff]

\* while remaining_noff >= lines[-1].length: remaining_noff -= lines.pop().length
RECURSIVE RemoveNegativeOffset(_, _)
RemoveNegativeOffset(ls, remaining_noff) ==
    IF FGeq(remaining_noff, FromInt(ls[Len(ls)].length))
    THEN IF Len(ls) = 1
         THEN [lines |-> <<>>, remaining |-> FSub(remaining_noff, FromInt(ls[1].length))]
         ELSE RemoveNegativeOffset(SubSeq(ls, 1, Len(ls) - 1),
                                   FSub(remaining_noff, FromInt(ls[Len(ls)].length)))
    ELSE [lines |-> ls, remaining |-> remaining_noff]

remove_offsets(route, poff, noff) ==
    LET head == RemovePositiveOffset(lines(route),
                                     FAdd(FromInt(poff), absolute_start_offset(route)))
    IN  IF head.lines = <<>> THEN LRDecodeError
        ELSE
        LET tail == RemoveNegativeOffset(head.lines,
                                         FAdd(FromInt(noff), absolute_end_offset(route)))
        IN  IF tail.lines = <<>> THEN LRDecodeError
            ELSE
            LET start_line == Head(tail.lines)
                rest == Tail(tail.lines)
                end_line == IF rest # <<>> THEN rest[Len(rest)] ELSE start_line
                between == IF rest # <<>> THEN SubSeq(rest, 1, Len(rest) - 1) ELSE <<>>
            IN  Route(from_abs_offset(start_line, head.remaining),
                      between,
                      from_abs_offset(end_line,
                                      FSub(FromInt(end_line.length), tail.remaining)))

\* variant: Route.lines hands out the route's own path_inbetween list
WorkingList_alias(route) == [object |-> "path_inbetween", items |-> lines(route)]

\* lines = path.lines: the list object all removals of remove_offsets act on;
\* Route.lines builds a new list on every access
WorkingList(route) == [object |-> "new list", items |-> lines(route)]

\* the input route after the call: the working list holds what the pops left
\* of it (nothing when the error is raised; it is the list handed to the
\* returned Route otherwise)
InputAfter(route, poff, noff) ==
    LET res == remove_offsets(route, poff, noff)
        left == IF res = LRDecodeError THEN <<>> ELSE res.path_inbetween
    IN  [route EXCEPT !.path_inbetween =
            IF WorkingList(route).object = "path_inbetween" THEN left ELSE @]

\* ---------------------------------------------------------------- wgs84.py
\* Optional[...] values that are absent
None == <<>>

\* azimuths of the grid: north, east, south, west as unit vectors
Azimuths == {<<0, 1>>, <<1, 0>>, <<0, -1>>, <<-1, 0>>}

Sgn(i) == IF i > 0 THEN 1 ELSE IF i < 0 THEN -1 ELSE 0

distance(point_a, point_b) ==
    Abs(point_a[1] - point_b[1]) + Abs(point_a[2] - point_b[2])

\* azimuth at point_a of the line to point_b; the solver's answer for
\* coincident points is not specified and is left open (azi_coincident)
bearing(point_a, point_b) ==
    IF point_a = point_b THEN azi_coincident
    ELSE <<Sgn(point_b[1] - point_a[1]), Sgn(point_b[2] - point_a[2])>>

extrapolate(pt, dist, angle) == <<pt[1] + dist * angle[1], pt[2] + dist * angle[2]>>

\* (s0, s1), (s1, s2), ...
pairwise(coords) == [i \in 1..(Len(coords) - 1) |-> <<coords[i], coords[i + 1]>>]

RECURSIVE SumLengths(_, _)
SumLengths(pairs, i) ==
    IF i > Len(pairs) THEN 0
    ELSE distance(pairs[i][1], pairs[i][2]) + SumLengths(pairs, i + 1)

line_string_length(line_string) == SumLengths(pairwise(line_string), 1)

\* variant: the segment length is not subtracted from the remaining distance
RECURSIVE InterpolateLoop_nosub(_, _, _)
InterpolateLoop_nosub(segments, i, remaining_distance) ==
    IF i > Len(segments) THEN segments[Len(segments)][2]
    ELSE LET point1 == segments[i][1]
             point2 == segments[i][2]
             segment_length == distance(point1, point2)
         IN  IF remaining_distance = 0 THEN point1
             ELSE IF remaining_distance < segment_length
                  THEN extrapolate(point1, remaining_distance, bearing(point1, point2))
                  ELSE InterpolateLoop_nosub(segments, i + 1, remaining_distance)

\* the loop of interpolate over the segments, from segment i on
RECURSIVE InterpolateLoop(_, _, _)
InterpolateLoop(segments, i, remaining_distance) ==
    IF i > Len(segments) THEN segments[Len(segments)][2]
    ELSE LET point1 == segments[i][1]
             point2 == segments[i][2]
             segment_length == distance(point1, point2)
         IN  IF remaining_distance = 0 THEN point1
             ELSE IF remaining_distance < segment_length
                  THEN extrapolate(point1, remaining_distance, bearing(point1, point2))
                  ELSE InterpolateLoop(segments, i + 1, remaining_distance - segment_length)

interpolate(coords, distance_meters) ==
    InterpolateLoop(pairwise(coords), 1, distance_meters)

\* variant: a segment is split also when the offset equals its length
RECURSIVE SplitLoop_leq(_, _, _)
SplitLoop_leq(segments, i, st) ==
    IF i > Len(segments) THEN st
    ELSE LET point_from == segments[i][1]
             point_to == segments[i][2]
         IN  IF st.splitpoint = None
             THEN LET first == Append(st.first_part, point_from)
                      segment_length == distance(point_from, point_to)
                  IN  IF st.remaining_offset =< segment_length
                      THEN LET splitpoint == interpolate(<<point_from, point_to>>,
                                                         st.remaining_offset)
                           IN  SplitLoop_leq(segments, i + 1,
                                   [first_part |-> IF splitpoint # point_from
                                                   THEN Append(first, splitpoint)
                                                   ELSE first,
                                    second_part |-> <<splitpoint, point_to>>,
                                    remaining_offset |-> st.remaining_offset - segment_length,
                                    splitpoint |-> splitpoint])
                      ELSE SplitLoop_leq(segments, i + 1,
                                   [st EXCEPT !.first_part = first,
                                              !.remaining_offset = @ - segment_length])
             ELSE SplitLoop_leq(segments, i + 1,
                            [st EXCEPT !.second_part = Append(@, point_to)])

\* variant: the split point is appended without comparing it with point_from
RECURSIVE SplitLoop_dup(_, _, _)
SplitLoop_dup(segments, i, st) ==
    IF i > Len(segments) THEN st
    ELSE LET point_from == segments[i][1]
             point_to == segments[i][2]
         IN  IF st.splitpoint = None
             THEN LET first == Append(st.first_part, point_from)
                      segment_length == distance(point_from, point_to)
                  IN  IF st.remaining_offset < segment_length
                      THEN LET splitpoint == interpolate(<<point_from, point_to>>,
                                                         st.remaining_offset)
                           IN  SplitLoop_dup(segments, i + 1,
                                   [first_part |-> Append(first, splitpoint),
                                    second_part |-> <<splitpoint, point_to>>,
                                    remaining_offset |-> st.remaining_offset - segment_length,
                                    splitpoint |-> splitpoint])
                      ELSE SplitLoop_dup(segments, i + 1,
                                   [st EXCEPT !.first_part = first,
                                              !.remaining_offset = @ - segment_length])
             ELSE SplitLoop_dup(segments, i + 1,
                            [st EXCEPT !.second_part = Append(@, point_to)])

\* the loop of split_line over the segments, from segment i on
RECURSIVE SplitLoop(_, _, _)
SplitLoop(segments, i, st) ==
    IF i > Len(segments) THEN st
    ELSE LET point_from == segments[i][1]
             point_to == segments[i][2]
         IN  IF st.splitpoint = None
             THEN LET first == Append(st.first_part, point_from)
                      segment_length == distance(point_from, point_to)
                  IN  IF st.remaining_offset < segment_length
                      THEN LET splitpoint == interpolate(<<point_from, point_to>>,
                                                         st.remaining_offset)
                           IN  SplitLoop(segments, i + 1,
                                   [first_part |-> IF splitpoint # point_from
                                                   THEN Append(first, splitpoint)
                                                   ELSE first,
                                    second_part |-> <<splitpoint, point_to>>,
                                    remaining_offset |-> st.remaining_offset - segment_length,
                                    splitpoint |-> splitpoint])
                      ELSE SplitLoop(segments, i + 1,
                                   [st EXCEPT !.first_part = first,
                                              !.remaining_offset = @ - segment_length])
             ELSE SplitLoop(segments, i + 1,
                            [st EXCEPT !.second_part = Append(@, point_to)])

split_line(line_string, meters) ==
    LET st == SplitLoop(pairwise(line_string), 1,
                        [first_part |-> <<>>, second_part |-> <<>>,
                         remaining_offset |-> meters, splitpoint |-> None])
    IN  IF st.splitpoint = None
        THEN [first |-> line_string, second |-> None]
        ELSE [first |-> IF Len(st.first_part) > 1 THEN st.first_part ELSE None,
              second |-> IF Len(st.second_part) > 1 THEN st.second_part ELSE None]

ValueError == [error |-> "Lines are not connected"]

LineString(coords) == [coords |-> coords]

\* variant: a later polyline is appended whole, first vertex included
RECURSIVE JoinLoop_extend_all(_, _, _, _)
JoinLoop_extend_all(ls, i, coords, last) ==
    IF i > Len(ls) THEN LineString(coords)
    ELSE LET cs == ls[i]
             first == cs[1]
         IN  IF last # None /\ first # last THEN ValueError
             ELSE JoinLoop_extend_all(ls, i + 1,
                           (IF last = None THEN Append(coords, first) ELSE coords)
                               \o (IF last = None THEN Tail(cs) ELSE cs),
                           cs[Len(cs)])

\* variant: last keeps the end of the first polyline
RECURSIVE JoinLoop_stale_last(_, _, _, _)
JoinLoop_stale_last(ls, i, coords, last) ==
    IF i > Len(ls) THEN LineString(coords)
    ELSE LET cs == ls[i]
             first == cs[1]
         IN  IF last # None /\ first # last THEN ValueError
             ELSE JoinLoop_stale_last(ls, i + 1,
                           (IF last = None THEN Append(coords, first) ELSE coords)
                               \o Tail(cs),
                           IF last = None THEN cs[Len(cs)] ELSE last)

\* the loop of join_lines over the input, from element i on; last = None before
\* the first element
RECURSIVE JoinLoop(_, _, _, _)
JoinLoop(ls, i, coords, last) ==
    IF i > Len(ls) THEN LineString(coords)
    ELSE LET cs == ls[i]
             first == cs[1]
         IN  IF last # None /\ first # last THEN ValueError
             ELSE JoinLoop(ls, i + 1,
                           (IF last = None THEN Append(coords, first) ELSE coords)
                               \o Tail(cs),
                           cs[Len(cs)])

join_lines(ls) == JoinLoop(ls, 1, <<>>, None)

\* ------------------------------------------------------------------ inputs
\* relative offsets of the points of an input route
RelativeOffsets == {<<0, 1>>, <<1, 2>>, <<1, 1>>}

SeqsUpTo(S, n) == UNION {[1..k -> S] : k \in 0..n}

Routes ==
    {Route(PointOnLine(s, so), between, PointOnLine(e, eo)) :
        s \in Lines, so \in RelativeOffsets, between \in SeqsUpTo(Lines, MaxInbetween),
        e \in Lines, eo \in RelativeOffsets}

\* segment vectors of an input polyline: axis-parallel, possibly of length 0
Steps == {<<0, 0>>} \cup {<<a[1] * k, a[2] * k>> : a \in Azimuths, k \in 1..MaxSegment}

RECURSIVE Walk(_, _, _)
Walk(from, steps, i) ==
    IF i > Len(steps) THEN <<from>>
    ELSE <<from>> \o Walk(<<from[1] + steps[i][1], from[2] + steps[i][2]>>, steps, i + 1)

Polylines ==
    {Walk(<<0, 0>>, steps, 1) : steps \in UNION {[1..k -> Steps] : k \in 1..(MaxVertices - 1)}}

MetricOffsets == (-1)..((MaxVertices - 1) * MaxSegment + 1)

\* vertices of the polylines handed to join_lines
JoinPoints == {<<0, 0>>, <<1, 0>>}

JoinPieces == [1..2 -> JoinPoints] \cup [1..3 -> JoinPoints]

NoValue == [pending |-> TRUE]

\* the parts of the state an operation under check does not use
RouteIdle ==
    /\ path = NoValue /\ p_off = 0 /\ n_off = 0
    /\ route_lines = <<>> /\ result = NoValue /\ path_after = NoValue

GeoIdle ==
    /\ line = <<>> /\ meters_into = 0 /\ azi_coincident = <<0, 1>>
    /\ parts = NoValue /\ joined = NoValue /\ point = None /\ linestrings = <<>>

PointIdle == pol_line = NoValue /\ abs_offset = <<0, 1>> /\ pol = NoValue

BearIdle ==
    /\ candidate = NoValue /\ is_last_lrp = FALSE /\ bear_dist = 0
    /\ measured = None /\ bear = None

DecodeIdle ==
    /\ reference = <<>> /\ first_candidates = <<>> /\ invoked = <<>>
    /\ decoded = NoValue

ToolIdle == module_geo_tool = 0 /\ invocation = <<>>

CacheIdle == cache = <<>> /\ h_args = <<>> /\ h_ret = 0 /\ h_hit = FALSE

\* ------------------------------------------------- the geo tool (wgs84.py)
Init ==
    /\ pc = "input"
    /\ line \in Polylines
    /\ meters_into \in MetricOffsets
    /\ azi_coincident \in Azimuths
    /\ parts = NoValue
    /\ joined = NoValue
    /\ point = None
    /\ linestrings = <<>>
    /\ RouteIdle
    /\ PointIdle
    /\ BearIdle
    /\ DecodeIdle
    /\ ToolIdle
    /\ CacheIdle

SplitLine ==
    /\ pc = "input"
    /\ parts' = split_line(line, meters_into)
    /\ pc' = "split"
    /\ UNCHANGED <<line, meters_into, azi_coincident, joined, point, linestrings>>
    /\ UNCHANGED <<routeVars, pointVars, bearVars, decodeVars, toolVars, cacheVars>>

\* Route.shape: the parts that are present are joined again
JoinParts ==
    /\ pc = "split"
    /\ linestrings' = (IF parts.first # None THEN <<parts.first>> ELSE <<>>)
                          \o (IF parts.second # None THEN <<parts.second>> ELSE <<>>)
    /\ joined' = join_lines(linestrings')
    /\ pc' = "joined"
    /\ UNCHANGED <<line, meters_into, azi_coincident, parts, point>>
    /\ UNCHANGED <<routeVars, pointVars, bearVars, decodeVars, toolVars, cacheVars>>

Interpolate ==
    /\ pc = "input"
    /\ point' = interpolate(line, meters_into)
    /\ pc' = "interpolated"
    /\ UNCHANGED <<line, meters_into, azi_coincident, parts, joined, linestrings>>
    /\ UNCHANGED <<routeVars, pointVars, bearVars, decodeVars, toolVars, cacheVars>>

Next == SplitLine \/ JoinParts \/ Interpolate

Spec == Init /\ [][Next]_vars

\* --------------------------------------------------- join_lines on its own
InitJoin ==
    /\ pc = "input"
    /\ linestrings \in SeqsUpTo(JoinPieces, MaxJoin)
    /\ joined = NoValue
    /\ line = <<>> /\ meters_into = 0 /\ azi_coincident = <<0, 1>>
    /\ parts = NoValue /\ point = None
    /\ RouteIdle
    /\ PointIdle
    /\ BearIdle
    /\ DecodeIdle
    /\ ToolIdle
    /\ CacheIdle

JoinLines ==
    /\ pc = "input"
    /\ joined' = join_lines(linestrings)
    /\ pc' = IF joined' = ValueError THEN "raised" ELSE "joined"
    /\ UNCHANGED <<line, meters_into, azi_coincident, parts, point, linestrings>>
    /\ UNCHANGED <<routeVars, pointVars, bearVars, decodeVars, toolVars, cacheVars>>

NextJoin == JoinLines

SpecJoin == InitJoin /\ [][NextJoin]_vars

\* ------------------------------------- routes and offsets (routes.py, path_math.py)
InitRoute ==
    /\ pc = "input"
    /\ path \in Routes
    /\ p_off \in 0..MaxOffset
    /\ n_off \in 0..MaxOffset
    /\ route_lines = <<>>
    /\ result = NoValue
    /\ path_after = NoValue
    /\ GeoIdle
    /\ PointIdle
    /\ BearIdle
    /\ DecodeIdle
    /\ ToolIdle
    /\ CacheIdle

GetLines ==
    /\ pc = "input"
    /\ route_lines' = lines(path)
    /\ pc' = "lines"
    /\ UNCHANGED <<path, p_off, n_off, result, path_after>>
    /\ UNCHANGED <<geoVars, pointVars, bearVars, decodeVars, toolVars, cacheVars>>

RemoveOffsets ==
    /\ pc = "input"
    /\ result' = remove_offsets(path, p_off, n_off)
    /\ path_after' = InputAfter(path, p_off, n_off)
    /\ pc' = IF result' = LRDecodeError THEN "raised" ELSE "returned"
    /\ UNCHANGED <<path, p_off, n_off, route_lines>>
    /\ UNCHANGED <<geoVars, pointVars, bearVars, decodeVars, toolVars, cacheVars>>

NextRoute == GetLines \/ RemoveOffsets

SpecRoute == InitRoute /\ [][NextRoute]_vars

\* ------------------------------------- PointOnLine.from_abs_offset on its own
\* absolute offsets in steps of 1/OffsetDenominator metres, from beyond the
\* length of the longest line before its end to beyond that length after its start
AbsOffsets ==
    {Float(k, OffsetDenominator) :
        k \in (-((MaxLineLength + 1) * OffsetDenominator))
                  ..((MaxLineLength + 1) * OffsetDenominator)}

InitPoint ==
    /\ pc = "input"
    /\ pol_line \in Lines
    /\ abs_offset \in AbsOffsets
    /\ pol = NoValue
    /\ RouteIdle
    /\ GeoIdle
    /\ BearIdle
    /\ DecodeIdle
    /\ ToolIdle
    /\ CacheIdle

FromAbsOffset ==
    /\ pc = "input"
    /\ pol' = from_abs_offset(pol_line, abs_offset)
    /\ pc' = "point"
    /\ UNCHANGED <<pol_line, abs_offset>>
    /\ UNCHANGED <<routeVars, geoVars, bearVars, decodeVars, toolVars, cacheVars>>

NextPoint == FromAbsOffset

SpecPoint == InitPoint /\ [][NextPoint]_vars

\* ------------------------------------------------ compute_bearing on its own
\* a map line with its shape; its length is the length of the shape
GeoLine(coords) ==
    [line_id |-> 1, length |-> line_string_length(coords), coords |-> coords]

\* Line.coordinates()
coordinates(l) == l.coords

\* an azimuth is represented by its direction on the grid; degrees(b) % 360
\* is the one representative of that direction in [0, 360), 0.0 being north
North == <<0, 1>>

\* a distance of a whole number of metres as the number handed to interpolate
Whole(f) == f[1] \div f[2]

\* candidate.position == value as compute_bearing writes it: position is the
\* method PointOnLine.position(geo_tool), which is not called here, and a bound
\* method is equal to no float
position_eq(c, value) == FALSE

compute_bearing(c, is_last, dist) ==
    IF (~is_last /\ position_eq(c, FromInt(1))) \/ (is_last /\ position_eq(c, FromInt(0)))
    THEN [bear |-> North, measured |-> None]
    ELSE LET coords == coordinates(c.line)
             offset == Whole(distance_from_start(c))
             origin == interpolate(coords, offset)
             bearing_point ==
                 IF Len(coords) = 2
                 THEN IF is_last THEN coords[1] ELSE coords[Len(coords)]
                 ELSE IF is_last
                      THEN interpolate(coords, offset - dist)
                      ELSE interpolate(coords, offset + dist)
         IN  [bear |-> bearing(origin, bearing_point),
              measured |-> <<origin, bearing_point>>]

\* candidates at every whole metre of every line of positive length
Candidates ==
    {PointOnLine(GeoLine(coords), Float(o, line_string_length(coords))) :
        <<coords, o>> \in {co \in Polylines \X (0..((MaxVertices - 1) * MaxSegment)) :
                              /\ line_string_length(co[1]) > 0
                              /\ co[2] =< line_string_length(co[1])}}

InitBearing ==
    /\ pc = "input"
    /\ candidate \in Candidates
    /\ is_last_lrp \in BOOLEAN
    /\ bear_dist \in 1..MaxBearDist
    /\ measured = None
    /\ bear = None
    /\ azi_coincident \in Azimuths
    /\ line = <<>> /\ meters_into = 0
    /\ parts = NoValue /\ joined = NoValue /\ point = None /\ linestrings = <<>>
    /\ RouteIdle
    /\ PointIdle
    /\ DecodeIdle
    /\ ToolIdle
    /\ CacheIdle

ComputeBearing ==
    /\ pc = "input"
    /\ LET res == compute_bearing(candidate, is_last_lrp, bear_dist)
       IN  /\ bear' = res.bear
           /\ measured' = res.measured
    /\ pc' = "bearing"
    /\ UNCHANGED <<candidate, is_last_lrp, bear_dist>>
    /\ UNCHANGED <<routeVars, geoVars, pointVars, decodeVars, toolVars, cacheVars>>

NextBearing == ComputeBearing

SpecBearing == InitBearing /\ [][NextBearing]_vars

\* ------------------------------------------ dereference_path and decode_line
IndexError == [error |-> "list index out of range"]

\* msg = f"No candidates found for first LRP {first_lrp}"
NoCandidatesMsg(first_lrp) ==
    [error |-> "No candidates found for first LRP", lrp |-> first_lrp]

IsError(v) == "error" \in DOMAIN v

\* variant: the candidate list is not looked at
HasCandidates_always(cands) == TRUE

\* the test of `if not first_candidates`
HasCandidates(cands) == cands # <<>>

\* dereference_path(lrps, ...): nominated is what nominate_candidates yields
\* for the first LRP, tail what match_tail does if it is called
dereference_path(lrps, nominated, tail) ==
    IF lrps = <<>>
    THEN [value |-> IndexError, first_candidates |-> <<>>, invoked |-> <<>>]
    ELSE LET first_lrp == lrps[1]
         IN  IF ~HasCandidates(nominated)
             THEN [value |-> NoCandidatesMsg(first_lrp),
                   first_candidates |-> nominated,
                   invoked |-> <<>>]
             ELSE [value |-> tail,
                   first_candidates |-> nominated,
                   invoked |-> <<[fn |-> "match_tail",
                                  first_lrp |-> first_lrp,
                                  first_candidates |-> nominated,
                                  lrps |-> Tail(lrps)]>>]

\* decode_line(reference, ...): location is what build_line_location does if
\* it is called
decode_line(ref, nominated, tail, location) ==
    LET deref == dereference_path(ref, nominated, tail)
    IN  IF IsError(deref.value) THEN deref
        ELSE [value |-> location,
              first_candidates |-> deref.first_candidates,
              invoked |-> Append(deref.invoked,
                                 [fn |-> "build_line_location", parts |-> deref.value])]

\* location references of up to MaxLrps points
References == SeqsUpTo(1..NumLrps, MaxLrps)

\* what nominate_candidates can yield: any list of candidates, also none
Nominations == SeqsUpTo(1..NumCandidates, NumCandidates)

\* what match_tail can do: return the routes between the LRPs, or fail
TailOutcomes ==
    {[routes |-> c] : c \in 1..NumCandidates} \cup {[error |-> "match_tail failed"]}

\* what build_line_location can do: return the location, or fail
LocationOutcomes ==
    {[location |-> "LineLocation"], [error |-> "build_line_location failed"]}

InitDecode ==
    /\ pc = "input"
    /\ reference \in References
    /\ first_candidates = <<>>
    /\ invoked = <<>>
    /\ decoded = NoValue
    /\ RouteIdle
    /\ GeoIdle
    /\ PointIdle
    /\ BearIdle
    /\ ToolIdle
    /\ CacheIdle

DereferencePath ==
    /\ pc = "input"
    /\ \E nominated \in Nominations, tail \in TailOutcomes :
          LET res == dereference_path(reference, nominated, tail)
          IN  /\ first_candidates' = res.first_candidates
              /\ invoked' = res.invoked
              /\ decoded' = res.value
    /\ pc' = "dereferenced"
    /\ UNCHANGED reference
    /\ UNCHANGED <<routeVars, geoVars, pointVars, bearVars, toolVars, cacheVars>>

DecodeLine ==
    /\ pc = "input"
    /\ \E nominated \in Nominations, tail \in TailOutcomes, location \in LocationOutcomes :
          LET res == decode_line(reference, nominated, tail, location)
          IN  /\ first_candidates' = res.first_candidates
              /\ invoked' = res.invoked
              /\ decoded' = res.value
    /\ pc' = "decoded"
    /\ UNCHANGED reference
    /\ UNCHANGED <<routeVars, geoVars, pointVars, bearVars, toolVars, cacheVars>>

NextDecode == DereferencePath \/ DecodeLine

SpecDecode == InitDecode /\ [][NextDecode]_vars

\* ------------------------------- the package's geo tool, used from threads
\* geo tool objects; tool 1 is the WGS84GeoTool() made when the package is loaded
GeoTools == 1..NumGeoTools

Threads == 1..NumThreads

\* geotool(): the module global as it is now
geotool == module_geo_tool

\* set_geotool(tool): the value of the module global after the call
set_geotool(tool) == tool

Idle == [pc |-> "idle", seen |-> <<>>]

InitThreads ==
    /\ pc = "threads"
    /\ module_geo_tool = 1
    /\ invocation = [t \in Threads |-> Idle]
    /\ RouteIdle
    /\ GeoIdle
    /\ PointIdle
    /\ BearIdle
    /\ DecodeIdle
    /\ CacheIdle

threadsRest ==
    <<pc, routeVars, geoVars, pointVars, bearVars, decodeVars, cacheVars>>

\* a thread begins a decode invocation
StartDecode ==
    /\ \E t \in Threads :
          /\ invocation[t].pc \in {"idle", "done"}
          /\ invocation' = [invocation EXCEPT ![t] = [pc |-> "running", seen |-> <<>>]]
    /\ UNCHANGED module_geo_tool
    /\ UNCHANGED threadsRest

\* the decode invocation of a thread asks for the geo tool
Geotool ==
    /\ \E t \in Threads :
          /\ invocation[t].pc = "running"
          /\ Len(invocation[t].seen) < MaxReads
          /\ invocation' = [invocation EXCEPT ![t].seen = Append(@, geotool)]
    /\ UNCHANGED module_geo_tool
    /\ UNCHANGED threadsRest

\* the decode invocation of a thread ends
FinishDecode ==
    /\ \E t \in Threads :
          /\ invocation[t].pc = "running"
          /\ invocation' = [invocation EXCEPT ![t].pc = "done"]
    /\ UNCHANGED module_geo_tool
    /\ UNCHANGED threadsRest

\* a thread that is not inside a decode invocation of its own calls set_geotool
SetGeotool ==
    /\ \E t \in Threads, tool \in GeoTools :
          /\ invocation[t].pc # "running"
          /\ module_geo_tool' = set_geotool(tool)
    /\ UNCHANGED invocation
    /\ UNCHANGED threadsRest

NextThreads == StartDecode \/ Geotool \/ FinishDecode \/ SetGeotool

SpecThreads == InitThreads /\ [][NextThreads]_vars

\* ------------------------------------------------- the memoised A* heuristic
\* @lru_cache(maxsize=2)
maxsize == 2

\* node objects of the map
Nodes == 1..NumNodes

\* Node.coordinates: node n lies n metres east of the origin
NodeCoordinates(n) == <<n, 0>>

\* geo_tool.distance: tool 1 measures as the WGS84 tool does, every other
\* tool in a unit of its own
ToolDistance(geo_tool, a, b) == geo_tool * distance(a, b)

\* the body of heuristic
heuristic_body(current, target, geo_tool) ==
    ToolDistance(geo_tool, NodeCoordinates(current), NodeCoordinates(target))

\* variant: the cache is keyed by the two nodes only
make_key_nodes(current, target, geo_tool) == <<current, target>>

\* the key lru_cache makes of the positional arguments of a call
make_key(current, target, geo_tool) == <<current, target, geo_tool>>

\* index of the entry of key k in cache c, 0 if there is none
RECURSIVE Find(_, _, _)
Find(c, k, i) ==
    IF i > Len(c) THEN 0
    ELSE IF c[i].key = k THEN i ELSE Find(c, k, i + 1)

Without(c, i) == SubSeq(c, 1, i - 1) \o SubSeq(c, i + 1, Len(c))

\* heuristic(current, target, geo_tool) through the lru_cache wrapper: a hit
\* returns the stored value and makes the entry the most recently used; a
\* miss runs the body, evicts the least recently used entry of a full cache
\* and stores the new value
heuristic(c, current, target, geo_tool) ==
    LET key == make_key(current, target, geo_tool)
        i == Find(c, key, 1)
    IN  IF i # 0
        THEN [cache |-> Append(Without(c, i), c[i]), ret |-> c[i].value, hit |-> TRUE]
        ELSE LET value == heuristic_body(current, target, geo_tool)
                 kept == IF Len(c) >= maxsize THEN Tail(c) ELSE c
             IN  [cache |-> Append(kept, [key |-> key, value |-> value]),
                  ret |-> value, hit |-> FALSE]

InitCache ==
    /\ pc = "input"
    /\ cache = <<>>
    /\ h_args = <<>>
    /\ h_ret = 0
    /\ h_hit = FALSE
    /\ RouteIdle
    /\ GeoIdle
    /\ PointIdle
    /\ BearIdle
    /\ DecodeIdle
    /\ ToolIdle

Heuristic ==
    /\ pc \in {"input", "called"}
    /\ \E current \in Nodes, target \in Nodes, geo_tool \in GeoTools :
          LET res == heuristic(cache, current, target, geo_tool)
          IN  /\ cache' = res.cache
              /\ h_args' = <<current, target, geo_tool>>
              /\ h_ret' = res.ret
              /\ h_hit' = res.hit
    /\ pc' = "called"
    /\ UNCHANGED <<routeVars, geoVars, pointVars, bearVars, decodeVars, toolVars>>

NextCache == Heuristic

SpecCache == InitCache /\ [][NextCache]_vars

\* ------------------------------------------------- offset trimming, C1..C3
\* summed length of the first k entries / of the last k entries of a line list
HeadLength(ls, k) == path_length(SubSeq(ls, 1, k))
TailLength(ls, k) == path_length(SubSeq(ls, Len(ls) - k + 1, Len(ls)))

\* p_off + the route's start offset, n_off + the route's end offset
StartSum == FAdd(FromInt(p_off), absolute_start_offset(path))
EndSum == FAdd(FromInt(n_off), absolute_end_offset(path))

\* number of leading lines that end at or before StartSum
HeadDropped ==
    Cardinality({k \in 1..Len(lines(path)) :
                    FLeq(FromInt(HeadLength(lines(path), k)), StartSum)})

\* the lines that remain once the head has been trimmed
AfterHead == SubSeq(lines(path), HeadDropped + 1, Len(lines(path)))

\* number of trailing lines of AfterHead that begin at or after EndSum from the end
TailDropped ==
    Cardinality({k \in 1..Len(AfterHead) : FLeq(FromInt(TailLength(AfterHead, k)), EndSum)})

\* the lines left once head and tail have been trimmed
Survivors == SubSeq(AfterHead, 1, Len(AfterHead) - TailDropped)

RemovesEveryLine ==
    \/ FGeq(StartSum, FromInt(path_length(lines(path))))
    \/ FGeq(EndSum, FromInt(path_length(AfterHead)))

\* C1: remove_offsets raises the offset-too-large error whenever trimming
\* removes every line (p_off + start offset >= total length, or n_off + end
\* offset >= length of what the head trimming left); a route is returned only
\* when lines survive.
C1_OffsetTooLarge ==
    pc \in {"raised", "returned"} =>
        /\ RemovesEveryLine => result = LRDecodeError
        /\ pc = "returned" =>
               /\ ~RemovesEveryLine
               /\ Survivors # <<>>
               /\ lines(result) = Survivors

\* the error raised by the tail loop after the head loop dropped a line
C1_Witness ==
    /\ pc = "raised"
    /\ result = LRDecodeError
    /\ HeadDropped > 0
    /\ FLt(StartSum, FromInt(path_length(lines(path))))
    /\ FGeq(EndSum, FromInt(path_length(AfterHead)))

RouteInvariant(route) ==
    route.start.line.line_id = route.end.line.line_id =>
        /\ route.path_inbetween = <<>>
        /\ FLeq(route.start.relative_offset, route.end.relative_offset)

\* total length of the lines - start offset - end offset
RemainingLength(route) ==
    FSub(FSub(FromInt(path_length(lines(route))), absolute_start_offset(route)),
         absolute_end_offset(route))

RECURSIVE CollapseAdjacent(_)
CollapseAdjacent(ls) ==
    IF Len(ls) =< 1 THEN ls
    ELSE IF ls[1].line_id = ls[2].line_id
         THEN CollapseAdjacent(Tail(ls))
         ELSE <<ls[1]>> \o CollapseAdjacent(Tail(ls))

\* C4: Route.lines is start.line, path_inbetween..., end.line with adjacent
\* entries of equal line id collapsed: it starts with the start line, ends
\* with the end line, has no two adjacent entries with the same id, and has
\* one element when start and end are on one line with nothing in between.
C4_LinesCollapsed ==
    pc = "lines" =>
        /\ route_lines
               = CollapseAdjacent(<<path.start.line>> \o path.path_inbetween
                                      \o <<path.end.line>>)
        /\ route_lines[1] = path.start.line
        /\ route_lines[Len(route_lines)] = path.end.line
        /\ \A i \in 1..(Len(route_lines) - 1) :
               route_lines[i].line_id # route_lines[i + 1].line_id
        /\ (path.start.line = path.end.line /\ path.path_inbetween = <<>>)
               => Len(route_lines) = 1

\* the end line repeats the last line in between and is collapsed with it
C4_Witness ==
    /\ pc = "lines"
    /\ Len(path.path_inbetween) = 1
    /\ path.path_inbetween[1] # path.start.line
    /\ path.path_inbetween[1] = path.end.line
    /\ route_lines = <<path.start.line, path.end.line>>

\* ------------------------------------------------------ split_line, C5..C8
\* arc length from the first vertex of a polyline to its k-th vertex
ArcLengthTo(coords, k) == line_string_length(SubSeq(coords, 1, k))

LastVertex(coords) == coords[Len(coords)]

NoRepeatedVertex(coords) ==
    \A i \in 1..(Len(coords) - 1) : coords[i] # coords[i + 1]

\* pt lies on the segment from a to b (segments are axis-parallel)
OnSegment(pt, a, b) == distance(a, pt) + distance(pt, b) = distance(a, b)

\* C5: for every offset d <= 0, split_line(poly, d) returns (None, poly).
C5_SplitAtOrBeforeStart ==
    (pc = "split" /\ meters_into =< 0) =>
        parts = [first |-> None, second |-> line]

\* C6: for every offset d >= length(poly), split_line(poly, d) returns
\* (poly, None).
C6_SplitAtOrBeyondEnd ==
    (pc = "split" /\ meters_into >= line_string_length(line)) =>
        parts = [first |-> line, second |-> None]

\* an offset beyond the end of a polyline of two segments
C6_Witness ==
    /\ pc = "split"
    /\ Len(line) = 3
    /\ NoRepeatedVertex(line)
    /\ meters_into > line_string_length(line)
    /\ parts.first = line
    /\ parts.second = None

\* the offset is that of an interior vertex, strictly inside the polyline
SplitsAtInteriorVertex ==
    /\ 0 < meters_into
    /\ meters_into < line_string_length(line)
    /\ \E k \in 2..(Len(line) - 1) : ArcLengthTo(line, k) = meters_into

StrictlyInside ==
    0 < meters_into /\ meters_into < line_string_length(line)

\* both parts present, connected, of lengths summing to the length of the
\* input, and accepted by join_lines
SplitPartsJoin ==
    /\ parts.first # None
    /\ parts.second # None
    /\ LastVertex(parts.first) = parts.second[1]
    /\ line_string_length(parts.first) + line_string_length(parts.second)
           = line_string_length(line)
    /\ joined # ValueError

\* C8 as stated: for 0 < d < length both parts are present, join_lines
\* accepts them, their lengths sum to the length of the input, and the
\* joined polyline has the vertices of the input polyline.
C8_JoinSplitVertexEqual ==
    (pc = "joined" /\ StrictlyInside) =>
        /\ SplitPartsJoin
        /\ joined.coords = line

\* C8 amended: ... and the joined polyline is the input polyline with the
\* split point inserted as one more vertex on the segment it falls on; it has
\* exactly the vertices of the input when the offset is that of a vertex.
C8_JoinSplitInverse ==
    (pc = "joined" /\ StrictlyInside) =>
        /\ SplitPartsJoin
        /\ \/ joined.coords = line
           \/ \E i \in 1..(Len(line) - 1) :
                  /\ joined.coords = SubSeq(line, 1, i) \o <<parts.second[1]>>
                                         \o SubSeq(line, i + 1, Len(line))
                  /\ OnSegment(parts.second[1], line[i], line[i + 1])
                  /\ ArcLengthTo(line, i) + distance(line[i], parts.second[1])
                         = meters_into
        /\ joined.coords = line
               <=> \E k \in 1..Len(line) : ArcLengthTo(line, k) = meters_into

\* a split strictly inside the second segment, joined again
C8_Witness ==
    /\ pc = "joined"
    /\ StrictlyInside
    /\ Len(line) = 3
    /\ ArcLengthTo(line, 2) < meters_into
    /\ meters_into < ArcLengthTo(line, 3)
    /\ Len(joined.coords) = 4

\* ------------------------------------------------------- join_lines, C9
Disconnected(ls) ==
    \E i \in 1..(Len(ls) - 1) : ls[i + 1][1] # LastVertex(ls[i])

\* all vertices in order, the first vertex of every polyline but the first left out
RECURSIVE ConcatSharingJoints(_)
ConcatSharingJoints(ls) ==
    IF ls = <<>> THEN <<>>
    ELSE IF Len(ls) = 1 THEN ls[1]
         ELSE ConcatSharingJoints(SubSeq(ls, 1, Len(ls) - 1)) \o Tail(ls[Len(ls)])

\* C9: join_lines raises the disconnected-geometries error exactly when some
\* polyline of the input starts at another vertex than the one its
\* predecessor ends at; otherwise it returns all vertices in order, each
\* shared joint once.
C9_JoinLines ==
    pc \in {"raised", "joined"} =>
        /\ joined = ValueError <=> Disconnected(linestrings)
        /\ ~Disconnected(linestrings) =>
               joined = LineString(ConcatSharingJoints(linestrings))

\* three polylines, the first two connected, the third not
C9_Witness ==
    /\ pc = "raised"
    /\ Len(linestrings) = 3
    /\ linestrings[2][1] = LastVertex(linestrings[1])
    /\ linestrings[3][1] # LastVertex(linestrings[2])
    /\ joined = ValueError

\* ------------------------------------------------------ interpolate, C10
Min(a, b) == IF a < b THEN a ELSE b

\* pt is at arc length s from the first vertex of the path
AtArcLength(coords, pt, s) ==
    \E i \in 1..(Len(coords) - 1) :
        /\ ArcLengthTo(coords, i) =< s
        /\ s =< ArcLengthTo(coords, i + 1)
        /\ OnSegment(pt, coords[i], coords[i + 1])
        /\ distance(coords[i], pt) = s - ArcLengthTo(coords, i)

\* C10: for d >= 0, interpolate(path, d) is the point at arc length
\* min(d, length(path)): the first vertex for d = 0, the last vertex for
\* d >= length, vertex k when d is the arc length to vertex k, and otherwise
\* the point on the first segment ending beyond d, at the residual distance.
C10_Interpolate ==
    (pc = "interpolated" /\ meters_into >= 0) =>
        /\ AtArcLength(line, point, Min(meters_into, line_string_length(line)))
        /\ meters_into = 0 => point = line[1]
        /\ meters_into >= line_string_length(line) => point = LastVertex(line)
        /\ \A k \in 1..Len(line) :
               ArcLengthTo(line, k) = meters_into => point = line[k]
        /\ \A i \in 1..(Len(line) - 1) :
               (ArcLengthTo(line, i) < meters_into
                    /\ meters_into < ArcLengthTo(line, i + 1)) =>
                   /\ OnSegment(point, line[i], line[i + 1])
                   /\ distance(line[i], point) = meters_into - ArcLengthTo(line, i)

\* a point strictly inside the second segment
C10_Witness ==
    /\ pc = "interpolated"
    /\ Len(line) = 3
    /\ ArcLengthTo(line, 2) < meters_into
    /\ meters_into < ArcLengthTo(line, 3)
    /\ point # line[2]
    /\ point # line[3]
    /\ OnSegment(point, line[2], line[3])

C18_FromAbsOffset ==
    pc = "point" =>
        LET len == FromInt(pol_line.length)
            zero == FromInt(0)
        IN  /\ (FLeq(zero, abs_offset) /\ FLeq(abs_offset, len)) =>
                   distance_from_start(pol) = abs_offset
            /\ (FLeq(FSub(zero, len), abs_offset) /\ FLt(abs_offset, zero)) =>
                   /\ distance_from_start(pol) = FAdd(len, abs_offset)
                   /\ distance_to_end(pol) = FSub(zero, abs_offset)
            /\ (FLeq(FSub(zero, len), abs_offset) /\ FLeq(abs_offset, len)) =>
                   FAdd(distance_from_start(pol), distance_to_end(pol)) = len

\* a negative offset of a fraction of a metre, strictly inside the line
C18_Witness ==
    /\ pc = "point"
    /\ FLt(abs_offset, FromInt(0))
    /\ FGt(abs_offset, FSub(FromInt(0), FromInt(pol_line.length)))
    /\ abs_offset[2] # 1
    /\ distance_to_end(pol) = FSub(FromInt(0), abs_offset)

\* ------------------------------------------------ compute_bearing, C11-C13
CandidateOffset == Whole(distance_from_start(candidate))

CandidateLength == candidate.line.length

\* the two cases in which the candidate sits at the far end of its line
Degenerate ==
    \/ is_last_lrp /\ CandidateOffset = 0
    \/ ~is_last_lrp /\ CandidateOffset = CandidateLength

\* C11: in the two degenerate cases (last LRP and offset 0, or not last and
\* offset equal to the line length) compute_bearing returns 0 and measures no
\* bearing.
C11_DegenerateReturnsZero ==
    (pc = "bearing" /\ Degenerate) =>
        /\ bear = North
        /\ measured = None

Max(a, b) == IF a > b THEN a ELSE b

\* C12: the point toward which the bearing is measured lies on the line, at
\* arc length max(0, o - B) for the last LRP and min(L, o + B) otherwise.
C12_BearingPointOnLine ==
    (pc = "bearing" /\ measured # None) =>
        AtArcLength(coordinates(candidate.line), measured[2],
                    IF is_last_lrp
                    THEN Max(0, CandidateOffset - bear_dist)
                    ELSE Min(CandidateLength, CandidateOffset + bear_dist))

\* C13: geo_tool.bearing is never invoked with two identical points.
C13_NoCoincidentBearing ==
    (pc = "bearing" /\ measured # None) => measured[1] # measured[2]

\* ------------------------------------------ dereference_path, decode_line, C14
\* C14: when nomination for the first LRP yields no candidate,
\* dereference_path and decode_line fail with a decode error naming that LRP
\* and invoke neither match_tail nor build_line_location; match_tail is only
\* ever invoked with a non-empty list of first candidates.
C14_NoFirstCandidates ==
    (pc \in {"dereferenced", "decoded"} /\ reference # <<>>) =>
        /\ first_candidates = <<>> =>
               /\ decoded = NoCandidatesMsg(reference[1])
               /\ invoked = <<>>
        /\ \A i \in 1..Len(invoked) :
               invoked[i].fn = "match_tail" => invoked[i].first_candidates # <<>>

\* decode_line of a reference of several LRPs whose first LRP has no candidate
C14_Witness ==
    /\ pc = "decoded"
    /\ Len(reference) >= 2
    /\ reference[1] # reference[2]
    /\ first_candidates = <<>>
    /\ decoded = NoCandidatesMsg(reference[1])
    /\ invoked = <<>>

\* ------------------------------------------------ geotool and threads, C15
\* C15: no step of another thread, a call of set_geotool included, changes
\* the geo tool that geotool() returns to a decode invocation in progress:
\* every geotool() of one invocation returns the same tool.
C15_NoSharedGeoTool ==
    pc = "threads" =>
        \A t \in Threads :
            \A i, j \in 1..Len(invocation[t].seen) :
                invocation[t].seen[i] = invocation[t].seen[j]

\* ------------------------------------------------ the memoised heuristic, C16
\* C16: after any sequence of heuristic calls every call returns
\* geo_tool.distance(current.coordinates, target.coordinates) for its own
\* arguments, no two cache entries stand for the same call, and the cache
\* holds at most 2 entries.
C16_HeuristicTransparent ==
    pc = "called" =>
        /\ h_ret = ToolDistance(h_args[3], NodeCoordinates(h_args[1]),
                                NodeCoordinates(h_args[2]))
        /\ Len(cache) =< 2
        /\ \A i, j \in 1..Len(cache) : cache[i].key = cache[j].key => i = j

\* a call answered from a full cache whose other entry is for the same two
\* nodes and another geo tool
C16_Witness ==
    /\ pc = "called"
    /\ h_hit
    /\ Len(cache) = 2
    /\ h_args[1] # h_args[2]
    /\ cache[1].key[1] = cache[2].key[1]
    /\ cache[1].key[2] = cache[2].key[2]
    /\ cache[1].key[3] # cache[2].key[3]
    /\ cache[1].value # cache[2].value
    /\ h_ret = cache[2].value

=============================================================================
